---- MODULE Spec2Model ----
(***************************************************************************)
(* Model of the ai-infra retrieval service.                                *)
(*                                                                         *)
(*  - Spec    : the FastAPI application of src/app (api keys, documents,   *)
(*              chunks, ingestion jobs, similarity search) together with   *)
(*              the batch writer of src/app/services/insert.py, running    *)
(*              against one PostgreSQL database.  Every request owns its   *)
(*              own session (src/app/db.py), so a request's writes stay    *)
(*              private to it until its commit.                            *)
(*  - SpecRag : the RAGService of src/test/app/rag.py, whose calls run in  *)
(*              a thread pool and share ONE psycopg2 connection, hence     *)
(*              one transaction.                                           *)
(***************************************************************************)
EXTENDS Integers, Sequences, FiniteSets, TLC

\* ------------------------------------------------------------------ bounds
MaxReq == 3
MaxDocs == 2
MaxKeys == 3
MaxBatch == 2
MaxIndex == 1
MaxDir == 1
MaxTopK == 1
MaxCalls == 3
MaxSources == 2
MaxPages == 1

\* ------------------------------------------------------- program constants
EMBEDDING_DIM == 1536
QUERY_DIM == 1536
VECTOR_DIM == 1536
page_size == 100

\* Python's None where an embedding is expected (the column's NULL).
None == [len |-> 0 - 1, dir |-> 0]
\* No row / no object where a Document or an ApiKey is expected.
NoDoc == [team_id |-> 0, project_id |-> 0, source_type |-> "none", status |-> "none"]
NoKey == [id |-> 0, team_id |-> 0]

Reqs == 1 .. MaxReq
Teams == {1, 2}
ProjectIds == {1, 2}
DocIds == 1 .. MaxDocs
KeyIds == 1 .. MaxKeys
Dirs == 0 .. MaxDir

\* ------------------------------------------------------------- embeddings
\* A vector is kept as its length and its direction: the vector of `len`
\* components whose first two are (cos a, sin a) for the angle a = dir * 45
\* degrees, and whose other components are 0.
GoodVec(d) == [len |-> EMBEDDING_DIM, dir |-> d]
ShortVec == [len |-> EMBEDDING_DIM - 1, dir |-> 0]
LongVec == [len |-> EMBEDDING_DIM + 1, dir |-> 0]
\* The empty list, and the vector of EMBEDDING_DIM zeros (it has no direction).
EmptyVec == [len |-> 0, dir |-> 0]
ZeroVec == [len |-> EMBEDDING_DIM, dir |-> 0 - 1]

\* Python truthiness of `c.embedding` (None and the empty list are falsy).
Truthy(e) == e # None /\ e.len > 0

\* Request bodies.  A chunk is a ChunkCreate without the fields that carry no
\* behaviour (content, page and token metadata).
\* Batches: every list of up to MaxBatch chunks, an embedding being absent,
\* of the right length, or one component short.
Batches ==
    UNION {[1 .. n -> [chunk_index : 0 .. MaxIndex,
                       embedding : {None, GoodVec(0), ShortVec}]] : n \in 0 .. MaxBatch}

\* RunBatches: the lists a well-behaved client sends, consecutive chunk_index
\* values from `lo` on, all chunks embedded alike.
RunBatches ==
    UNION {{[i \in 1 .. n |-> [chunk_index |-> lo + i - 1, embedding |-> e]] :
               lo \in 0 .. MaxIndex + 1 - n,
               e \in {None} \cup {GoodVec(d) : d \in Dirs}} : n \in 0 .. MaxBatch}

QueryVectors == {GoodVec(d) : d \in Dirs} \cup {ShortVec}

\* MixedBatches: chunk_index 0, 1, ... and, chunk by chunk, no embedding, an
\* embedding in the first direction, or the zero vector.
MixedBatches ==
    UNION {{[i \in 1 .. n |-> [chunk_index |-> i - 1, embedding |-> e[i]]] :
               e \in [1 .. n -> {None, GoodVec(0), ZeroVec}]} :
           n \in 0 .. MaxBatch}

\* Query vectors of every kind of length, the zero vector among them.
AnyQueryVectors == {GoodVec(0), ShortVec, ZeroVec, EmptyVec, LongVec}

Range(s) == {s[i] : i \in DOMAIN s}

\* ----------------------------------------------------------------- tokens
\* hashlib.sha256(token.encode()).hexdigest(): distinct tokens have distinct
\* digests.  Token k (k >= 1) is the raw key handed out with ApiKey row k;
\* token 0 is a bearer string that was never issued.
Tokens == 0 .. MaxKeys
\* A request that carries no Authorization header.
MissingToken == 0 - 1
sha256(token) == <<"sha256", token>>

\* ------------------------------------------------------------------ state
VARIABLES
    teams,            \* table teams: set of team ids
    projects,         \* table projects: project id -> owning team_id
    api_keys,         \* table api_keys, in creation order (row id = position)
    documents,        \* table documents: document id -> row, or NoDoc
    document_chunks,  \* table document_chunks, in insertion order (id = position)
    ingestion_jobs,   \* table ingestion_jobs: set of rows
    blobs,            \* objects of the GCS bucket
    doc_seq,          \* document ids handed out so far (gen_random_uuid)
    pc,               \* per request: where its handler stands
    req,              \* per request: the parameters the handler has read
    cur,              \* per request: current_key, the ApiKey get_api_key returned
    sess,             \* per request: its session (doc.id, rows not yet committed)
    resp,             \* per request: the response sent
    rag_committed,    \* RAGService: table rows committed in the database
    rag_work,         \* RAGService: table rows as self.conn's transaction sees them
    rag_tx,           \* RAGService: transaction status of self.conn
    rag_pc,           \* RAGService: per pool thread, where its call stands
    rag_call,         \* RAGService: per pool thread, the call and its locals
    rag_ret,          \* RAGService: per pool thread, what the call returned
    rag_seq           \* RAGService: ingestions started so far

appVars == <<teams, projects, api_keys, documents, document_chunks,
             ingestion_jobs, blobs, doc_seq, pc, req, cur, sess, resp>>
ragVars == <<rag_committed, rag_work, rag_tx, rag_pc, rag_call, rag_ret, rag_seq>>
vars == <<appVars, ragVars>>

NoReq == [op |-> "none", token |-> 0, team_id |-> 0, project_id |-> 0,
          document_id |-> 0, key_id |-> 0, chunks |-> <<>>,
          embedding |-> None, top_k |-> 0, commit |-> FALSE]
NoSess == [doc_id |-> 0, doc |-> NoDoc, chunks |-> <<>>, key_id |-> 0]
NoResp == [code |-> 0, results |-> <<>>]

\* ApiKey(team_id=..., key_hash=...): status has server_default 'active',
\* revoked_at is NULL (0 here).
ApiKey(team_id, token) ==
    [team_id |-> team_id, key_hash |-> sha256(token), status |-> "active",
     revoked_at |-> 0]

\* Document(...): status has server_default 'uploaded'.
Document(team_id, project_id, source_type) ==
    [team_id |-> team_id, project_id |-> project_id,
     source_type |-> source_type, status |-> "uploaded"]

\* DocumentChunk(document_id=..., chunk_index=..., embedding=...).
DocumentChunk(document_id, chunk) ==
    [document_id |-> document_id, chunk_index |-> chunk.chunk_index,
     embedding |-> chunk.embedding]

\* IngestionJob(document_id=..., chunks_created=...): status has
\* server_default 'queued'; no handler assigns it.
IngestionJob(document_id, n) ==
    [document_id |-> document_id, status |-> "queued", chunks_created |-> n]

\* The database as provisioned: two teams, one project and one key each.
AppInit ==
    /\ teams = Teams
    /\ projects = [p \in ProjectIds |-> p]
    /\ api_keys = <<ApiKey(1, 1), ApiKey(2, 2)>>
    /\ documents = [d \in DocIds |-> NoDoc]
    /\ document_chunks = <<>>
    /\ ingestion_jobs = {}
    /\ blobs = {}
    /\ doc_seq = 0
    /\ pc = [r \in Reqs |-> "idle"]
    /\ req = [r \in Reqs |-> NoReq]
    /\ cur = [r \in Reqs |-> NoKey]
    /\ sess = [r \in Reqs |-> NoSess]
    /\ resp = [r \in Reqs |-> NoResp]

\* ----------------------------------------------------- authentication, keys
\* Requests are numbered in the order they arrive; each runs once.
Fresh(r) == pc[r] = "idle" /\ \A q \in Reqs : q < r => pc[q] # "idle"

Finish(r, code, results) ==
    /\ pc' = [pc EXCEPT ![r] = "done"]
    /\ resp' = [resp EXCEPT ![r] = [code |-> code, results |-> results]]

dataVars == <<documents, document_chunks, ingestion_jobs, blobs, doc_seq>>

\* A plausible slip: the status filter of the select is dropped.
MatchingKeysAnyStatus(token) ==
    {k \in DOMAIN api_keys : api_keys[k].key_hash = sha256(token)}

\* select(ApiKey).where(key_hash == ..., status == active), run on the
\* committed table each time it is called.
MatchingKeys(token) ==
    {k \in DOMAIN api_keys : /\ api_keys[k].key_hash = sha256(token)
                             /\ api_keys[k].status = "active"}

AuthedOps == {"similarity_search", "get_document", "list_chunks",
              "upload_file", "ingest_chunks", "revoke_api_key"}

\* The dependency every authenticated route runs first: a new request with
\* bearer `token` for route `op` arrives and is authenticated.  Without
\* credentials Security(bearer_scheme) refuses the request itself, 401 "Not
\* authenticated" (FastAPI releases before 0.122 answered 403 there).
get_api_key(r, op, token) ==
    /\ Fresh(r)
    /\ req' = [req EXCEPT ![r] = [NoReq EXCEPT !.op = op, !.token = token]]
    /\ sess' = [sess EXCEPT ![r] = NoSess]
    /\ LET hits == IF token = MissingToken THEN {} ELSE MatchingKeys(token) IN
       IF hits = {}
       THEN /\ cur' = [cur EXCEPT ![r] = NoKey]
            /\ Finish(r, 401, <<>>)
       ELSE IF Cardinality(hits) > 1
       THEN /\ cur' = [cur EXCEPT ![r] = NoKey]       \* scalar_one_or_none raises
            /\ Finish(r, 500, <<>>)
       ELSE LET k == CHOOSE k \in hits : TRUE IN
            /\ cur' = [cur EXCEPT ![r] = [id |-> k, team_id |-> api_keys[k].team_id]]
            /\ pc' = [pc EXCEPT ![r] = "authed"]
            /\ resp' = [resp EXCEPT ![r] = NoResp]
    /\ UNCHANGED <<teams, projects, api_keys, dataVars, ragVars>>

\* A plausible slip: the team check is left out.
AnyTeam(key, team_id) == FALSE

\* if current_key.team_id != team_id: raise HTTPException(403, ...)
WrongTeam(key, team_id) == key.team_id # team_id

\* A plausible slip: the handler flips the status instead of setting it.
RevokedToggle(row, now) ==
    [row EXCEPT !.status = IF @ = "active" THEN "revoked" ELSE "active",
                !.revoked_at = now]

\* api_key.status = ApiKeyStatus.revoked; api_key.revoked_at = datetime.utcnow()
Revoked(row, now) == [row EXCEPT !.status = "revoked", !.revoked_at = now]

\* A plausible slip: the 400 check is left out.
NeverRevoked(row) == FALSE

\* if api_key.status == ApiKeyStatus.revoked: raise HTTPException(400, ...)
AlreadyRevoked(row) == row.status = "revoked"

\* revoke_api_key up to its first await inside the body: the team check,
\* session.get(ApiKey, key_id) and the 404 / 400 checks.
revoke_api_key_load(r, team_id, key_id) ==
    /\ pc[r] = "authed" /\ req[r].op = "revoke_api_key"
    /\ req' = [req EXCEPT ![r].team_id = team_id, ![r].key_id = key_id]
    /\ IF WrongTeam(cur[r], team_id)
       THEN Finish(r, 403, <<>>) /\ UNCHANGED sess
       ELSE IF key_id \notin DOMAIN api_keys \/ api_keys[key_id].team_id # team_id
       THEN Finish(r, 404, <<>>) /\ UNCHANGED sess
       ELSE IF AlreadyRevoked(api_keys[key_id])
       THEN Finish(r, 400, <<>>) /\ UNCHANGED sess
       ELSE /\ sess' = [sess EXCEPT ![r].key_id = key_id]
            /\ pc' = [pc EXCEPT ![r] = "loaded"]
            /\ UNCHANGED resp
    /\ UNCHANGED <<teams, projects, api_keys, dataVars, cur, ragVars>>

\* revoke_api_key: the assignments and session.commit().  The clock reading
\* is kept as the number of the request that took it.
revoke_api_key_commit(r) ==
    /\ pc[r] = "loaded"
    /\ api_keys' = [api_keys EXCEPT ![sess[r].key_id] = Revoked(@, r)]
    /\ Finish(r, 200, <<sess[r].key_id>>)
    /\ UNCHANGED <<teams, projects, dataVars, req, cur, sess, ragVars>>

\* create_api_key: no key is asked of the caller; the new row's raw key is
\* fresh (secrets.token_hex), here the token numbered like the row.
create_api_key(team_id) ==
    /\ Len(api_keys) < MaxKeys
    /\ team_id \in teams
    /\ api_keys' = Append(api_keys, ApiKey(team_id, Len(api_keys) + 1))
    /\ UNCHANGED <<teams, projects, dataVars, pc, req, cur, sess, resp, ragVars>>

\* ------------------------------------------------------------- the tables
ChunkIds == DOMAIN document_chunks

\* Column embedding = Vector(1536): the column type refuses a value of any
\* other length when the row is sent to the database.
RefusedByColumn(rows) ==
    \E i \in DOMAIN rows :
        rows[i].embedding # None /\ rows[i].embedding.len # VECTOR_DIM

\* A plausible slip: the table is declared without uq_chunks_order.
NoUniqueConstraint(rows, table) == FALSE

\* UniqueConstraint("document_id", "chunk_index"): inserting `rows` into
\* `table` breaks it when two of the rows, or a row and a stored row, agree on
\* both columns.
ViolatesUnique(rows, table) ==
    \/ \E i, j \in DOMAIN rows :
          /\ i # j
          /\ rows[i].document_id = rows[j].document_id
          /\ rows[i].chunk_index = rows[j].chunk_index
    \/ \E i \in DOMAIN rows, j \in DOMAIN table :
          /\ rows[i].document_id = table[j].document_id
          /\ rows[i].chunk_index = table[j].chunk_index

\* ForeignKey("documents.id"): the referenced document must be a committed row.
ViolatesForeignKey(rows) ==
    \E i \in DOMAIN rows :
        rows[i].document_id \notin DocIds \/ documents[rows[i].document_id] = NoDoc

\* ------------------------------------------------------------ ingest routes
\* A plausible slip: session.commit() where the handler has session.flush().
CommittedAtFlush(doc_id, doc) == [documents EXCEPT ![doc_id] = doc]

\* What other sessions see of table documents after session.flush() has sent
\* the INSERT inside the still open transaction: nothing new.
VisibleAfterFlush(doc_id, doc) == documents

\* ingest_chunks up to `await session.flush()`: the team check, then the
\* Document row is INSERTed in the request's transaction and gets its id.
ingest_chunks_flush(r, team_id, project_id) ==
    /\ pc[r] = "authed" /\ req[r].op = "ingest_chunks"
    /\ req' = [req EXCEPT ![r].team_id = team_id, ![r].project_id = project_id]
    /\ IF WrongTeam(cur[r], team_id)
       THEN /\ Finish(r, 403, <<>>)
            /\ UNCHANGED <<sess, doc_seq, documents>>
       ELSE /\ doc_seq < MaxDocs
            /\ doc_seq' = doc_seq + 1
            /\ sess' = [sess EXCEPT ![r].doc_id = doc_seq + 1,
                                    ![r].doc = Document(team_id, project_id, "manual")]
            /\ documents' = VisibleAfterFlush(doc_seq + 1,
                                Document(team_id, project_id, "manual"))
            /\ pc' = [pc EXCEPT ![r] = "flushed"]
            /\ UNCHANGED resp
    /\ UNCHANGED <<teams, projects, api_keys, document_chunks, ingestion_jobs,
                   blobs, cur, ragVars>>

\* doc.status = "ready" if all(c.embedding for c in body.chunks) else "processing"
IngestStatus(chunks) ==
    IF \A i \in DOMAIN chunks : Truthy(chunks[i].embedding)
    THEN "ready" ELSE "processing"

\* ingest_chunks from the loop over body.chunks to the end: the chunk rows and
\* the job row are added, the status is set, and session.commit() sends them.
\* A refused row raises out of the handler (500) and the session, closed
\* without a commit, rolls the transaction back.
ingest_chunks_commit(r, chunks) ==
    /\ pc[r] = "flushed"
    /\ req' = [req EXCEPT ![r].chunks = chunks]
    /\ LET id == sess[r].doc_id
           rows == [i \in DOMAIN chunks |-> DocumentChunk(id, chunks[i])]
           job == IngestionJob(id, Len(chunks))
       IN IF RefusedByColumn(rows) \/ ViolatesUnique(rows, document_chunks)
          THEN /\ Finish(r, 500, <<>>)
               /\ UNCHANGED <<documents, document_chunks, ingestion_jobs>>
          ELSE /\ documents' = [documents EXCEPT
                                  ![id] = [sess[r].doc EXCEPT !.status = IngestStatus(chunks)]]
               /\ document_chunks' = document_chunks \o rows
               /\ ingestion_jobs' = ingestion_jobs \cup {job}
               /\ Finish(r, 201, <<id>>)
    /\ sess' = [sess EXCEPT ![r].doc = NoDoc]
    /\ UNCHANGED <<teams, projects, api_keys, blobs, doc_seq, cur, ragVars>>

\* upload_file up to `await session.commit()`: the team check and the
\* blocking gcs.upload_file_stream call, which may raise (500).
upload_file(r, team_id, project_id, gcs_ok) ==
    /\ pc[r] = "authed" /\ req[r].op = "upload_file"
    /\ req' = [req EXCEPT ![r].team_id = team_id, ![r].project_id = project_id]
    /\ IF WrongTeam(cur[r], team_id)
       THEN Finish(r, 403, <<>>) /\ UNCHANGED <<sess, blobs>>
       ELSE IF ~gcs_ok
       THEN Finish(r, 500, <<>>) /\ UNCHANGED <<sess, blobs>>
       ELSE /\ blobs' = blobs \cup {team_id}
            /\ sess' = [sess EXCEPT ![r].doc = Document(team_id, project_id, "upload")]
            /\ pc' = [pc EXCEPT ![r] = "uploaded"]
            /\ UNCHANGED resp
    /\ UNCHANGED <<teams, projects, api_keys, documents, document_chunks,
                   ingestion_jobs, doc_seq, cur, ragVars>>

\* upload_file: session.commit() INSERTs the Document row (status 'uploaded').
upload_file_commit(r) ==
    /\ pc[r] = "uploaded"
    /\ doc_seq < MaxDocs
    /\ doc_seq' = doc_seq + 1
    /\ documents' = [documents EXCEPT ![doc_seq + 1] = sess[r].doc]
    /\ sess' = [sess EXCEPT ![r].doc_id = doc_seq + 1, ![r].doc = NoDoc]
    /\ Finish(r, 201, <<doc_seq + 1>>)
    /\ UNCHANGED <<teams, projects, api_keys, document_chunks, ingestion_jobs,
                   blobs, req, cur, ragVars>>

\* ------------------------------------------------- services/insert.py
\* The length check of the loop: a present embedding of another length raises
\* ValueError before anything is added to the session.
InvalidEmbedding(chunks) ==
    \E i \in DOMAIN chunks :
        chunks[i].embedding # None /\ chunks[i].embedding.len # EMBEDDING_DIM

\* An INSERT waits while another open transaction holds a not yet committed
\* row with the same (document_id, chunk_index): the unique index decides only
\* once that transaction has ended.
WaitsFor(r, rows) ==
    \E q \in Reqs \ {r} :
        /\ pc[q] = "pending"
        /\ \E i \in DOMAIN rows, j \in DOMAIN sess[q].chunks :
              /\ rows[i].document_id = sess[q].chunks[j].document_id
              /\ rows[i].chunk_index = sess[q].chunks[j].chunk_index

\* insert_document_chunks(db, document_id=..., chunks=..., commit=...) up to
\* db.flush(): the length check, add_all and the INSERT of the batch.
insert_document_chunks(r, document_id, chunks, commit) ==
    /\ Fresh(r)
    /\ req' = [req EXCEPT ![r] = [NoReq EXCEPT !.op = "insert_document_chunks",
                                               !.document_id = document_id,
                                               !.chunks = chunks,
                                               !.commit = commit]]
    /\ cur' = [cur EXCEPT ![r] = NoKey]
    /\ LET rows == [i \in DOMAIN chunks |-> DocumentChunk(document_id, chunks[i])] IN
       IF InvalidEmbedding(chunks)
       THEN /\ Finish(r, "ValueError", <<>>)
            /\ sess' = [sess EXCEPT ![r] = NoSess]
       ELSE /\ ~WaitsFor(r, rows)
            /\ IF ViolatesUnique(rows, document_chunks) \/ ViolatesForeignKey(rows)
               THEN /\ Finish(r, "IntegrityError", <<>>)
                    /\ sess' = [sess EXCEPT ![r] = NoSess]       \* db.rollback()
               ELSE /\ sess' = [sess EXCEPT ![r] = [NoSess EXCEPT !.chunks = rows]]
                    /\ pc' = [pc EXCEPT ![r] = "pending"]
                    /\ resp' = [resp EXCEPT ![r] = NoResp]
    /\ UNCHANGED <<teams, projects, api_keys, dataVars, ragVars>>

\* db.commit(): by insert_document_chunks itself when commit is true, by its
\* caller, who owns the session, otherwise.
insert_document_chunks_commit(r) ==
    /\ pc[r] = "pending"
    /\ document_chunks' = document_chunks \o sess[r].chunks
    /\ sess' = [sess EXCEPT ![r].chunks = <<>>]
    /\ Finish(r, "ok", <<>>)
    /\ UNCHANGED <<teams, projects, api_keys, documents, ingestion_jobs, blobs,
                   doc_seq, req, cur, ragVars>>

\* With commit=False the caller may also drop the transaction.
caller_rollback(r) ==
    /\ pc[r] = "pending" /\ ~req[r].commit
    /\ sess' = [sess EXCEPT ![r].chunks = <<>>]
    /\ Finish(r, "rolled back", <<>>)
    /\ UNCHANGED <<teams, projects, api_keys, dataVars, req, cur, ragVars>>

\* ------------------------------------------------------------ read routes
\* 10^4 * cos(45 degrees * k), the cosine of two vectors whose directions are
\* k steps apart.
Cos1e4(k) ==
    CASE k = 0 -> 10000
      [] k = 1 -> 7071
      [] k = 2 -> 0
      [] k = 3 -> 0 - 7071
      [] OTHER -> 0 - 10000

Abs(n) == IF n < 0 THEN 0 - n ELSE n

\* The float NaN, which PostgreSQL sorts after every number.
NaN == 99999

\* embedding.cosine_distance(q), times 10^4: pgvector's <=>, which is NaN when
\* one of the vectors has norm 0.
cosine_distance(e, q) ==
    IF e = ZeroVec \/ q = ZeroVec THEN NaN
    ELSE 10000 - Cos1e4(Abs(e.dir - q.dir))

\* score=round(1 - dist, 4), times 10^4.
Score(dist) == IF dist = NaN THEN NaN ELSE 10000 - dist

\* A plausible slip: the statement without its two WHERE conditions.
EveryChunk(project_id) == ChunkIds

\* The rows the statement of similarity_search selects from: chunks of the
\* documents of the project, embedding not NULL.
Candidates(project_id) ==
    {c \in ChunkIds :
        /\ documents[document_chunks[c].document_id] # NoDoc
        /\ documents[document_chunks[c].document_id].project_id = project_id
        /\ document_chunks[c].embedding # None}

Min(a, b) == IF a < b THEN a ELSE b

\* ORDER BY key LIMIT n over the rows `ids`, key[c] being the sort value of
\* row c: every list of n distinct rows in ascending key order that leaves
\* out no row with a smaller key.  Rows with
\* equal keys come in whatever order the database produces.
OrderByLimit(ids, key, n) ==
    {s \in [1 .. Min(n, Cardinality(ids)) -> ids] :
        /\ \A i, j \in DOMAIN s : i < j => s[i] # s[j] /\ key[s[i]] <= key[s[j]]
        /\ \A c \in ids \ Range(s) : \A i \in DOMAIN s : key[s[i]] <= key[c]}

\* Index idx_chunks_embedding (hnsw, vector_cosine_ops): when the planner
\* answers ORDER BY distance LIMIT n from the index, the scan is approximate
\* and the WHERE conditions filter what it found: the result is in ascending
\* order but may hold fewer than n rows and may miss nearer ones.
HnswScan(ids, key, n) ==
    {s \in UNION {[1 .. m -> ids] : m \in 0 .. Min(n, Cardinality(ids))} :
        \A i, j \in DOMAIN s : i < j => s[i] # s[j] /\ key[s[i]] <= key[s[j]]}

\* A plausible slip: only too short a vector is refused.
TooShort(embedding) == embedding.len < QUERY_DIM

\* if len(body.embedding) != 1536
BadQueryLength(embedding) == embedding.len # QUERY_DIM

\* similarity_search: the length check (422), the select and the list of
\* ChunkMatch; score = round(1 - dist, 4), kept times 10^4.
similarity_search(r, project_id, embedding, top_k) ==
    /\ pc[r] = "authed" /\ req[r].op = "similarity_search"
    /\ req' = [req EXCEPT ![r].project_id = project_id,
                          ![r].embedding = embedding, ![r].top_k = top_k]
    /\ IF BadQueryLength(embedding)
       THEN Finish(r, 422, <<>>)
       ELSE LET dist == [c \in Candidates(project_id) |->
                            cosine_distance(document_chunks[c].embedding, embedding)] IN
            \E rows \in OrderByLimit(Candidates(project_id), dist, top_k)
                            \cup HnswScan(Candidates(project_id), dist, top_k) :
                Finish(r, 200, [i \in DOMAIN rows |->
                                   [chunk_id |-> rows[i],
                                    document_id |-> document_chunks[rows[i]].document_id,
                                    score |-> Score(dist[rows[i]])]])
    /\ UNCHANGED <<teams, projects, api_keys, dataVars, cur, sess, ragVars>>

\* get_document: session.get(Document, document_id), 404 when there is none.
get_document(r, document_id) ==
    /\ pc[r] = "authed" /\ req[r].op = "get_document"
    /\ req' = [req EXCEPT ![r].document_id = document_id]
    /\ IF documents[document_id] = NoDoc
       THEN Finish(r, 404, <<>>)
       ELSE Finish(r, 200, <<[document_id |-> document_id,
                              team_id |-> documents[document_id].team_id]>>)
    /\ UNCHANGED <<teams, projects, api_keys, dataVars, cur, sess, ragVars>>

\* list_chunks: the chunks of document_id, ordered by chunk_index.
list_chunks(r, document_id) ==
    /\ pc[r] = "authed" /\ req[r].op = "list_chunks"
    /\ req' = [req EXCEPT ![r].document_id = document_id]
    /\ LET ids == {c \in ChunkIds : document_chunks[c].document_id = document_id}
           idx == [c \in ids |-> document_chunks[c].chunk_index]
       IN \E rows \in OrderByLimit(ids, idx, Cardinality(ids)) :
              Finish(r, 200, [i \in DOMAIN rows |->
                                 [chunk_id |-> rows[i], document_id |-> document_id]])
    /\ UNCHANGED <<teams, projects, api_keys, dataVars, cur, sess, ragVars>>

\* ------------------------------------------------------------ RAGService
\* The table holds its rows in groups: the rows one INSERT statement of
\* execute_values wrote, that is one page of one ingestion.
Calls == 1 .. MaxCalls
Sources == 1 .. MaxSources

\* Chunk counts of an ingested file: around the page boundaries.
Totals == {k * page_size + x : k \in 0 .. MaxPages, x \in {0, 1}}

\* execute_values(cur, sql, rows, page_size=100) sends one INSERT per page.
NumPages(total) == (total + page_size - 1) \div page_size
PageRows(total, k) ==
    IF k * page_size <= total THEN page_size ELSE total - (k - 1) * page_size

\* len(doc.page_content) of the chunks of a file: one length per file.
ChunkLength(src) == 100 * src

Group(g, src, total, k) ==
    [ing |-> g, src |-> src, page |-> k, of |-> NumPages(total),
     n |-> PageRows(total, k), chunk_length |-> ChunkLength(src)]

RECURSIVE RowCount(_)
RowCount(tbl) ==
    IF tbl = {} THEN 0
    ELSE LET x == CHOOSE x \in tbl : TRUE IN x.n + RowCount(tbl \ {x})

NoCall == [op |-> "none", src |-> 0, total |-> 0, ing |-> 0, page |-> 0,
           rows |-> {}]
RECURSIVE LengthSum(_)
LengthSum(tbl) ==
    IF tbl = {} THEN 0
    ELSE LET x == CHOOSE x \in tbl : TRUE IN
         x.n * x.chunk_length + LengthSum(tbl \ {x})

NoStats == [total_chunks |-> 0, total_sources |-> 0, avg_chunk_length |-> 0,
            min_chunk_length |-> 0, max_chunk_length |-> 0]

\* A plausible slip: COUNT(source_file) for COUNT(DISTINCT source_file).
StatsNoDistinct(tbl) ==
    [NoStats EXCEPT !.total_chunks = RowCount(tbl), !.total_sources = RowCount(tbl)]

\* The SELECT of _stats_sync over the rows `tbl` and the dict made of its
\* row: the aggregates of no rows are NULL, returned as 0 (avg_chunk_length
\* is kept as its integer part).
StatsOf(tbl) ==
    IF tbl = {} THEN NoStats
    ELSE [total_chunks |-> RowCount(tbl),
          total_sources |-> Cardinality({x.src : x \in tbl}),
          avg_chunk_length |-> LengthSum(tbl) \div RowCount(tbl),
          min_chunk_length |->
              CHOOSE l \in {x.chunk_length : x \in tbl} :
                  \A x \in tbl : l <= x.chunk_length,
          max_chunk_length |->
              CHOOSE l \in {x.chunk_length : x \in tbl} :
                  \A x \in tbl : l >= x.chunk_length]

NoRet == [kind |-> "none", n |-> 0, rows |-> {}, stats |-> NoStats]

RagInit ==
    /\ rag_committed = {}
    /\ rag_work = {}
    /\ rag_tx = "idle"
    /\ rag_pc = [c \in Calls |-> "idle"]
    /\ rag_call = [c \in Calls |-> NoCall]
    /\ rag_ret = [c \in Calls |-> NoRet]
    /\ rag_seq = 0

\* Calls are numbered in the order they are submitted to the pool.
RagFresh(c) == rag_pc[c] = "idle" /\ \A q \in Calls : q < c => rag_pc[q] # "idle"

RagReturn(c, kind, n, rows) ==
    /\ rag_pc' = [rag_pc EXCEPT ![c] = "done"]
    /\ rag_ret' = [rag_ret EXCEPT ![c] = [NoRet EXCEPT !.kind = kind, !.n = n,
                                                      !.rows = rows]]

\* cur.execute on the shared connection: the statement fails when the
\* transaction is already aborted or when the server reports an error (ok
\* false); a failure leaves the transaction aborted and the exception leaves
\* the method, which has no except / rollback.
Fails(ok) == rag_tx = "aborted" \/ ~ok

\* self.conn.commit(): COMMIT makes the connection's transaction durable; on
\* an aborted transaction the server answers with a rollback.
ConnCommit ==
    /\ rag_committed' = IF rag_tx = "aborted" THEN rag_committed ELSE rag_work
    /\ rag_work' = IF rag_tx = "aborted" THEN rag_committed ELSE rag_work
    /\ rag_tx' = "idle"

\* _ingest_sync up to the `with self.conn.cursor()`: extraction, chunking and
\* embedding touch no shared state.
ingest_sync(c, src, total) ==
    /\ RagFresh(c)
    /\ rag_seq' = rag_seq + 1
    /\ rag_call' = [rag_call EXCEPT ![c] = [op |-> "ingest", src |-> src,
                                           total |-> total, ing |-> rag_seq + 1,
                                           page |-> 0, rows |-> {}]]
    /\ rag_pc' = [rag_pc EXCEPT ![c] = "insert"]
    /\ UNCHANGED <<rag_committed, rag_work, rag_tx, rag_ret, appVars>>

\* One INSERT statement of execute_values: the next page of the rows.
ingest_sync_page(c, ok) ==
    /\ rag_pc[c] = "insert"
    /\ rag_call[c].page < NumPages(rag_call[c].total)
    /\ IF Fails(ok)
       THEN /\ rag_tx' = "aborted"
            /\ rag_work' = rag_committed
            /\ RagReturn(c, "error", 0, {})
            /\ UNCHANGED rag_call
       ELSE /\ rag_tx' = "intrans"
            /\ rag_work' = rag_work \cup
                  {Group(rag_call[c].ing, rag_call[c].src, rag_call[c].total,
                         rag_call[c].page + 1)}
            /\ rag_call' = [rag_call EXCEPT ![c].page = @ + 1]
            /\ UNCHANGED <<rag_pc, rag_ret>>
    /\ UNCHANGED <<rag_committed, rag_seq, appVars>>

\* execute_values builds the next page on the client (cur.mogrify) before it
\* sends it: a value psycopg2 cannot adapt, such as a text with a NUL
\* character, raises there.  Nothing is sent and nothing is rolled back: the
\* pages already executed stay in the open transaction.
ingest_sync_page_raises(c) ==
    /\ rag_pc[c] = "insert"
    /\ rag_call[c].page < NumPages(rag_call[c].total)
    /\ RagReturn(c, "error", 0, {})
    /\ UNCHANGED <<rag_committed, rag_work, rag_tx, rag_call, rag_seq, appVars>>

\* _ingest_sync: self.conn.commit() and the return of (total, dim).
ingest_sync_commit(c) ==
    /\ rag_pc[c] = "insert"
    /\ rag_call[c].page = NumPages(rag_call[c].total)
    /\ ConnCommit
    /\ RagReturn(c, "ok", rag_call[c].total, {})
    /\ UNCHANGED <<rag_call, rag_seq, appVars>>

\* _search_sync: one SELECT, no commit; it returns at most top_k of the rows
\* it ranks, kept here as the groups the statement read.
search_sync(c, filter, ok) ==
    /\ RagFresh(c)
    /\ rag_call' = [rag_call EXCEPT ![c] = [NoCall EXCEPT !.op = "search", !.src = filter]]
    /\ IF Fails(ok)
       THEN /\ rag_tx' = "aborted"
            /\ rag_work' = rag_committed
            /\ RagReturn(c, "error", 0, {})
       ELSE /\ rag_tx' = "intrans"
            /\ rag_work' = rag_work
            /\ RagReturn(c, "ok", 0,
                         {x \in rag_work : filter = 0 \/ x.src = filter})
    /\ UNCHANGED <<rag_committed, rag_seq, appVars>>

\* _stats_sync: one SELECT of the aggregates, no commit.
stats_sync(c, ok) ==
    /\ RagFresh(c)
    /\ rag_call' = [rag_call EXCEPT ![c] = [NoCall EXCEPT !.op = "stats"]]
    /\ IF Fails(ok)
       THEN /\ rag_tx' = "aborted"
            /\ rag_work' = rag_committed
            /\ RagReturn(c, "error", 0, {})
       ELSE /\ rag_tx' = "intrans"
            /\ rag_work' = rag_work
            /\ rag_pc' = [rag_pc EXCEPT ![c] = "done"]
            /\ rag_ret' = [rag_ret EXCEPT ![c] =
                             [NoRet EXCEPT !.kind = "ok", !.stats = StatsOf(rag_work)]]
    /\ UNCHANGED <<rag_committed, rag_seq, appVars>>

\* _delete_sync: the DELETE statement; cur.rowcount is kept for the return.
delete_sync(c, src, ok) ==
    /\ RagFresh(c)
    /\ IF Fails(ok)
       THEN /\ rag_tx' = "aborted"
            /\ rag_work' = rag_committed
            /\ rag_call' = [rag_call EXCEPT ![c] = [NoCall EXCEPT !.op = "delete", !.src = src]]
            /\ RagReturn(c, "error", 0, {})
       ELSE /\ rag_tx' = "intrans"
            /\ rag_work' = {x \in rag_work : x.src # src}
            /\ rag_call' = [rag_call EXCEPT ![c] =
                              [NoCall EXCEPT !.op = "delete", !.src = src,
                                 !.rows = {x \in rag_work : x.src = src},
                                 !.total = RowCount({x \in rag_work : x.src = src})]]
            /\ rag_pc' = [rag_pc EXCEPT ![c] = "commit"]
            /\ UNCHANGED rag_ret
    /\ UNCHANGED <<rag_committed, rag_seq, appVars>>

\* _delete_sync: self.conn.commit() and the return of the row count.
delete_sync_commit(c) ==
    /\ rag_pc[c] = "commit"
    /\ ConnCommit
    /\ RagReturn(c, "ok", rag_call[c].total, {})
    /\ UNCHANGED <<rag_call, rag_seq, appVars>>

\* test/app/main.py, ingest: 201 with chunks_created when rag.ingest returned,
\* 500 when it raised.
ingest(ret) == IF ret.kind = "ok" THEN 201 ELSE 500

\* test/app/main.py, delete_document: 404 when rag.delete returned 0, else 200
\* with chunks_deleted; an exception of the call is a 500.
delete_document(ret) ==
    IF ret.kind # "ok" THEN 500 ELSE IF ret.n = 0 THEN 404 ELSE 200

\* ---------------------------------------------------------- specifications
Init == AppInit /\ RagInit

\* Spec: ingestion followed by the read routes, keys of both teams in use.
Next ==
    \/ \E r \in Reqs, token \in 1 .. 2,
          op \in {"ingest_chunks", "similarity_search", "get_document", "list_chunks"} :
          get_api_key(r, op, token)
    \/ \E r \in Reqs, t \in Teams, p \in ProjectIds : ingest_chunks_flush(r, t, p)
    \/ \E r \in Reqs, b \in RunBatches : ingest_chunks_commit(r, b)
    \/ \E r \in Reqs, p \in ProjectIds, e \in QueryVectors, n \in 0 .. MaxTopK :
          similarity_search(r, p, e, n)
    \/ \E r \in Reqs, d \in DocIds : get_document(r, d)
    \/ \E r \in Reqs, d \in DocIds : list_chunks(r, d)

Spec == Init /\ [][Next]_vars

\* SpecKeys: the life of api keys under concurrent requests.
NextKeys ==
    \/ \E r \in Reqs, token \in Tokens, op \in {"revoke_api_key", "get_document"} :
          get_api_key(r, op, token)
    \/ \E r \in Reqs, t \in Teams, k \in KeyIds : revoke_api_key_load(r, t, k)
    \/ \E r \in Reqs : revoke_api_key_commit(r)
    \/ \E t \in Teams : create_api_key(t)
    \/ \E r \in Reqs, d \in DocIds : get_document(r, d)

SpecKeys == Init /\ [][NextKeys]_vars

\* SpecIngest: concurrent POST .../chunks requests with every body of Batches.
NextIngest ==
    \/ \E r \in Reqs, token \in 0 .. 1 : get_api_key(r, "ingest_chunks", token)
    \/ \E r \in Reqs, t \in Teams, p \in ProjectIds : ingest_chunks_flush(r, t, p)
    \/ \E r \in Reqs, b \in Batches : ingest_chunks_commit(r, b)

SpecIngest == Init /\ [][NextIngest]_vars

\* SpecInsert: the three chunk-writing operations side by side, the batch
\* writer called from concurrent sessions.
NextInsert ==
    \/ \E r \in Reqs, op \in {"ingest_chunks", "upload_file"} : get_api_key(r, op, 1)
    \/ \E r \in Reqs : ingest_chunks_flush(r, 1, 1)
    \/ \E r \in Reqs, b \in RunBatches : ingest_chunks_commit(r, b)
    \/ \E r \in Reqs, ok \in BOOLEAN : upload_file(r, 1, 1, ok)
    \/ \E r \in Reqs : upload_file_commit(r)
    \/ \E r \in Reqs, d \in DocIds, b \in RunBatches, c \in BOOLEAN :
          insert_document_chunks(r, d, b, c)
    \/ \E r \in Reqs : insert_document_chunks_commit(r)
    \/ \E r \in Reqs : caller_rollback(r)

SpecInsert == Init /\ [][NextInsert]_vars

\* SpecQuery: one team's ingestions and queries, vectors of every kind.
NextQuery ==
    \/ \E r \in Reqs, op \in {"ingest_chunks", "similarity_search"} : get_api_key(r, op, 1)
    \/ \E r \in Reqs, p \in ProjectIds : ingest_chunks_flush(r, 1, p)
    \/ \E r \in Reqs, b \in MixedBatches : ingest_chunks_commit(r, b)
    \/ \E r \in Reqs, p \in ProjectIds, e \in AnyQueryVectors, n \in 0 .. MaxTopK + 1 :
          similarity_search(r, p, e, n)

SpecQuery == Init /\ [][NextQuery]_vars

\* SpecAuth: the writing routes called without credentials, with unknown,
\* revoked and active keys, for the caller's team and for the other one.
NextAuth ==
    \/ \E r \in Reqs, token \in MissingToken .. 2,
          op \in {"revoke_api_key", "upload_file", "ingest_chunks"} :
          get_api_key(r, op, token)
    \/ \E r \in Reqs, t \in Teams, k \in 1 .. 2 : revoke_api_key_load(r, t, k)
    \/ \E r \in Reqs : revoke_api_key_commit(r)
    \/ \E r \in Reqs, t \in Teams : ingest_chunks_flush(r, t, t)
    \/ \E r \in Reqs, b \in {x \in RunBatches : Len(x) <= 1} : ingest_chunks_commit(r, b)
    \/ \E r \in Reqs, t \in Teams, ok \in BOOLEAN : upload_file(r, t, t, ok)
    \/ \E r \in Reqs : upload_file_commit(r)

SpecAuth == Init /\ [][NextAuth]_vars

\* SpecRag: RAGService calls running in the thread pool on the one connection.
NextRag ==
    \/ \E c \in Calls, src \in Sources, total \in Totals : ingest_sync(c, src, total)
    \/ \E c \in Calls, ok \in BOOLEAN : ingest_sync_page(c, ok)
    \/ \E c \in Calls : ingest_sync_page_raises(c)
    \/ \E c \in Calls : ingest_sync_commit(c)
    \/ \E c \in Calls, f \in {0} \cup Sources, ok \in BOOLEAN : search_sync(c, f, ok)
    \/ \E c \in Calls, ok \in BOOLEAN : stats_sync(c, ok)
    \/ \E c \in Calls, src \in Sources, ok \in BOOLEAN : delete_sync(c, src, ok)
    \/ \E c \in Calls : delete_sync_commit(c)

SpecRag == Init /\ [][NextRag]_vars

\* ------------------------------------------------------------- properties
IsDone(r, op) == pc[r] = "done" /\ req[r].op = op

TeamOfDocument(d) == documents[d].team_id

\* C1 (as stated): a 200 answer of POST /query/{project} holds only chunks
\* whose document belongs to the team of the authenticating key, and the
\* answer is empty when the project belongs to another team.
C1_QueryStaysInTeam ==
    \A r \in Reqs :
        IsDone(r, "similarity_search") /\ resp[r].code = 200 =>
            /\ \A i \in DOMAIN resp[r].results :
                  TeamOfDocument(resp[r].results[i].document_id) = cur[r].team_id
            /\ projects[req[r].project_id] # cur[r].team_id => resp[r].results = <<>>

\* C2 (as stated): GET /ingest/documents/{id} and GET .../{id}/chunks return
\* no document row and no chunk row of a team other than the key's.
C2_ReadsStayInTeam ==
    \A r \in Reqs :
        (IsDone(r, "get_document") \/ IsDone(r, "list_chunks")) /\ resp[r].code = 200 =>
            \A i \in DOMAIN resp[r].results :
                TeamOfDocument(resp[r].results[i].document_id) = cur[r].team_id

RevokedToken(token) ==
    \E k \in DOMAIN api_keys :
        api_keys[k].key_hash = sha256(token) /\ api_keys[k].status = "revoked"

\* C3: a request whose authentication runs when the key of its token is
\* revoked in the committed table ends there with 401, whatever else is in
\* flight.
C3_RevocationImmediate ==
    [][\A r \in Reqs :
          pc[r] = "idle" /\ pc'[r] # "idle" /\ RevokedToken(req'[r].token) =>
              pc'[r] = "done" /\ resp'[r].code = 401]_vars

C3_Witness ==
    \E r, q \in Reqs :
        /\ IsDone(q, "revoke_api_key") /\ resp[q].code = 200
        /\ pc[r] = "done" /\ resp[r].code = 401
        /\ req[r].token = req[q].key_id
        /\ RevokedToken(req[r].token)

\* C4: no step takes an api key from revoked to any other status.
C4_RevokedIsTerminal ==
    [][\A k \in DOMAIN api_keys :
          api_keys[k].status = "revoked" =>
              k \in DOMAIN api_keys' /\ api_keys'[k].status = "revoked"]_vars

C4_Witness ==
    \E r \in Reqs :
        /\ IsDone(r, "revoke_api_key") /\ resp[r].code = 400
        /\ api_keys[req[r].key_id].status = "revoked"

HasDuplicateIndex(chunks) ==
    \E i, j \in DOMAIN chunks : i # j /\ chunks[i].chunk_index = chunks[j].chunk_index

NothingStoredFor(d) ==
    /\ documents[d] = NoDoc
    /\ \A c \in ChunkIds : document_chunks[c].document_id # d
    /\ \A j \in ingestion_jobs : j.document_id # d

\* C5: a POST .../chunks whose batch repeats a chunk_index is not answered
\* 201, and from the moment its Document row is flushed the committed store
\* holds no document, chunk or job row of that request.
C5_DuplicateBatchLeavesNothing ==
    \A r \in Reqs :
        /\ pc[r] = "flushed" => NothingStoredFor(sess[r].doc_id)
        /\ IsDone(r, "ingest_chunks") /\ HasDuplicateIndex(req[r].chunks) =>
              resp[r].code # 201 /\ (sess[r].doc_id # 0 => NothingStoredFor(sess[r].doc_id))

C5_Witness ==
    \E r \in Reqs :
        /\ IsDone(r, "ingest_chunks") /\ HasDuplicateIndex(req[r].chunks)
        /\ resp[r].code = 500 /\ sess[r].doc_id # 0
        /\ \E q \in Reqs : IsDone(q, "ingest_chunks") /\ resp[q].code = 201

\* C6 (as stated): a POST .../chunks whose batch has a present embedding of a
\* length other than 1536 is answered with a validation error (422), and is
\* rejected before the request has written anything.
C6_BadDimensionIsValidationError ==
    \A r \in Reqs :
        IsDone(r, "ingest_chunks") /\ InvalidEmbedding(req[r].chunks) =>
            resp[r].code = 422 /\ sess[r].doc_id = 0

ChunksOf(d) == {c \in ChunkIds : document_chunks[c].document_id = d}

\* C7 (as stated): a ready document has an embedding on every chunk, and a
\* processing document has a chunk without one.
C7_StatusMatchesChunks ==
    \A d \in DocIds :
        /\ documents[d].status = "ready" =>
              \A c \in ChunksOf(d) : document_chunks[c].embedding # None
        /\ documents[d].status = "processing" =>
              \E c \in ChunksOf(d) : document_chunks[c].embedding = None

\* C8 (as stated): once a POST .../chunks has returned, every IngestionJob it
\* created has status succeeded or failed.
C8_JobFinalized ==
    \A r \in Reqs :
        IsDone(r, "ingest_chunks") =>
            \A j \in ingestion_jobs :
                j.document_id = sess[r].doc_id => j.status \in {"succeeded", "failed"}

Partial(g, tbl) ==
    \E x \in tbl : x.ing = g /\ Cardinality({y \in tbl : y.ing = g}) < x.of

\* C9 (as stated): neither the committed table nor the rows a search has read
\* hold some but not all of the pages of one ingestion.
C9_IngestAllOrNothing ==
    \A g \in 1 .. rag_seq :
        /\ ~Partial(g, rag_committed)
        /\ \A c \in Calls : ~Partial(g, rag_ret[c].rows)

\* The committed batches that account for chunk (d, idx), other than r's.
WrittenByOther(r, d, idx) ==
    \E q \in Reqs \ {r} :
        /\ \E i \in DOMAIN req[q].chunks : req[q].chunks[i].chunk_index = idx
        /\ \/ IsDone(q, "insert_document_chunks") /\ resp[q].code = "ok"
                 /\ req[q].document_id = d
           \/ IsDone(q, "ingest_chunks") /\ resp[q].code = 201 /\ sess[q].doc_id = d

ChunkKeysUnique ==
    \A a, b \in ChunkIds :
        /\ document_chunks[a].document_id = document_chunks[b].document_id
        /\ document_chunks[a].chunk_index = document_chunks[b].chunk_index
        => a = b

\* C10: (document_id, chunk_index) is unique in the committed table, and a
\* batch write that ended in IntegrityError has left none of its chunks
\* there: every stored chunk with one of its keys was written by another
\* request.
C10_RacingWriteRejectedWhole ==
    /\ ChunkKeysUnique
    /\ \A r \in Reqs :
          IsDone(r, "insert_document_chunks") /\ resp[r].code = "IntegrityError" =>
              \A c \in ChunksOf(req[r].document_id) :
                  (\E i \in DOMAIN req[r].chunks :
                      req[r].chunks[i].chunk_index = document_chunks[c].chunk_index)
                  => WrittenByOther(r, req[r].document_id, document_chunks[c].chunk_index)

C10_Witness ==
    \E r, q \in Reqs :
        /\ IsDone(q, "insert_document_chunks") /\ resp[q].code = "ok"
        /\ IsDone(r, "insert_document_chunks") /\ resp[r].code = "IntegrityError"
        /\ req[r].document_id = req[q].document_id
        /\ documents[req[r].document_id] # NoDoc
        /\ Len(req[r].chunks) > Len(req[q].chunks)
        /\ \E i \in DOMAIN req[r].chunks, j \in DOMAIN req[q].chunks :
              req[r].chunks[i].chunk_index = req[q].chunks[j].chunk_index

DeleteReturned(d) ==
    rag_pc[d] = "done" /\ rag_call[d].op = "delete" /\ rag_ret[d].kind = "ok"

\* C11 (as stated): a delete(S) that has returned reports the number of rows
\* of S it removed, those rows are in the table no more, no search that runs
\* afterwards reads one of them, and a delete(S) that runs afterwards finds
\* none of them left (with nothing of S stored it returns 0, answered 404).
C11_DeleteCompleteOnReturn ==
    /\ [](\A d \in Calls :
            DeleteReturned(d) =>
                /\ rag_ret[d].n = RowCount(rag_call[d].rows)
                /\ delete_document(rag_ret[d]) = IF rag_ret[d].n = 0 THEN 404 ELSE 200
                /\ rag_call[d].rows \cap (rag_work \cup rag_committed) = {})
    /\ [][\A d, c \in Calls :
            DeleteReturned(d) /\ rag_pc[c] = "idle" /\ rag_pc'[c] # "idle" =>
                /\ rag_call'[c].op = "search" =>
                      rag_ret'[c].rows \cap rag_call[d].rows = {}
                /\ rag_call'[c].op = "delete" =>
                      rag_call'[c].rows \cap rag_call[d].rows = {}]_vars

Answered(r) == IsDone(r, "similarity_search") /\ resp[r].code = 200

\* C12: every chunk in a 200 answer of POST /query/{project} is a chunk of a
\* document of that project and has an embedding.
C12_ResultsInScope ==
    \A r \in Reqs :
        Answered(r) =>
            \A i \in DOMAIN resp[r].results :
                LET m == resp[r].results[i] IN
                /\ m.chunk_id \in ChunkIds
                /\ document_chunks[m.chunk_id].document_id = m.document_id
                /\ documents[m.document_id].project_id = req[r].project_id
                /\ document_chunks[m.chunk_id].embedding # None

C12_Witness ==
    \E r \in Reqs :
        /\ Answered(r) /\ resp[r].results # <<>>
        /\ \E c \in ChunkIds :
              /\ documents[document_chunks[c].document_id].project_id = req[r].project_id
              /\ document_chunks[c].embedding = None
        /\ \E c \in ChunkIds :
              /\ documents[document_chunks[c].document_id].project_id # req[r].project_id
              /\ document_chunks[c].embedding # None

\* The step in which similarity_search of request r answers 200.
Answers(r) ==
    /\ pc[r] = "authed" /\ req[r].op = "similarity_search"
    /\ pc'[r] = "done" /\ resp'[r].code = 200

DistanceTo(r, c) == cosine_distance(document_chunks[c].embedding, req'[r].embedding)

\* C13 (as stated): a 200 answer holds exactly min(top_k, number of
\* candidates) chunks, in ascending cosine distance, and no candidate left
\* out is strictly nearer to the query vector than a returned one.
C13_TopK ==
    [][\A r \in Reqs :
          Answers(r) =>
              LET C == Candidates(req'[r].project_id)
                  res == resp'[r].results
              IN /\ Len(res) = Min(req'[r].top_k, Cardinality(C))
                 /\ \A i, j \in DOMAIN res :
                       i < j => DistanceTo(r, res[i].chunk_id) <= DistanceTo(r, res[j].chunk_id)
                 /\ \A c \in C \ {res[i].chunk_id : i \in DOMAIN res} :
                       \A i \in DOMAIN res :
                           DistanceTo(r, res[i].chunk_id) <= DistanceTo(r, c)]_vars

\* C14 (as stated): chunks of equal score come in the order they were
\* inserted.
C14_TiesInInsertionOrder ==
    \A r \in Reqs :
        Answered(r) =>
            \A i, j \in DOMAIN resp[r].results :
                /\ i < j
                /\ resp[r].results[i].score # NaN
                /\ resp[r].results[i].score = resp[r].results[j].score
                =>
                    resp[r].results[i].chunk_id < resp[r].results[j].chunk_id

\* C15 (as stated): when the project holds a chunk c whose embedding is the
\* query vector and top_k >= 1, the first result has score 1.0, and c is in
\* the answer when top_k is at least the number of candidates at distance 0.
C15_RoundTrip ==
    [][\A r \in Reqs :
          Answers(r) /\ req'[r].top_k >= 1 =>
              LET C == Candidates(req'[r].project_id)
                  res == resp'[r].results
              IN \A c \in C :
                    document_chunks[c].embedding = req'[r].embedding =>
                        /\ res # <<>> /\ res[1].score = 10000
                        /\ req'[r].top_k >= Cardinality({x \in C : DistanceTo(r, x) = 0}) =>
                              \E i \in DOMAIN res : res[i].chunk_id = c]_vars

\* C17: a query vector of any length other than 1536 is answered 422 and
\* nothing else: no result is computed from it.
C17_BadQueryLengthRejected ==
    \A r \in Reqs :
        IsDone(r, "similarity_search") /\ req[r].embedding # None
           /\ req[r].embedding.len # QUERY_DIM =>
               resp[r].code = 422 /\ resp[r].results = <<>>

C17_Witness ==
    /\ \E r \in Reqs : IsDone(r, "similarity_search") /\ req[r].embedding = EmptyVec
                          /\ resp[r].code = 422
    /\ \E r \in Reqs : IsDone(r, "similarity_search") /\ req[r].embedding = LongVec
                          /\ resp[r].code = 422
                          /\ Candidates(req[r].project_id) # {}

EmptyIngestDone(c) ==
    rag_pc[c] = "done" /\ rag_call[c].op = "ingest" /\ rag_call[c].total = 0

\* C16 (as stated): an ingestion that yields zero chunks is not answered 201,
\* and the step that ends it leaves the committed table as it was.
C16_EmptyIngestFails ==
    /\ [](\A c \in Calls : EmptyIngestDone(c) => ingest(rag_ret[c]) # 201)
    /\ [][\A c \in Calls :
            ~EmptyIngestDone(c) /\ EmptyIngestDone(c)' => rag_committed' = rag_committed]_vars

Store == <<teams, projects, api_keys, documents, document_chunks, ingestion_jobs, blobs>>

WritingOps == {"upload_file", "ingest_chunks"}

NoActiveKey(token) ==
    \/ token = MissingToken
    \/ \A k \in DOMAIN api_keys :
          api_keys[k].key_hash = sha256(token) => api_keys[k].status = "revoked"

\* C18: on the upload and chunk-ingestion routes a request without
\* credentials or with an unknown or revoked key ends with 401, a request
\* with an active key of another team than the one in the path ends with 403,
\* neither step changes a table row or a blob, and 401 and 403 are given for
\* nothing else.
C18_AuthFailuresDistinctAndClean ==
    /\ [][\A r \in Reqs :
            /\ pc[r] = "idle" /\ pc'[r] # "idle" /\ req'[r].op \in WritingOps
                  /\ NoActiveKey(req'[r].token) =>
                  pc'[r] = "done" /\ resp'[r].code = 401 /\ Store' = Store
            /\ pc[r] = "authed" /\ pc'[r] # "authed" /\ req[r].op \in WritingOps
                  /\ req'[r].team_id # cur[r].team_id =>
                  /\ pc'[r] = "done" /\ resp'[r].code = 403
                  /\ Store' = Store /\ sess'[r] = sess[r]]_vars
    /\ [](\A r \in Reqs :
            pc[r] = "done" /\ req[r].op \in WritingOps =>
                /\ resp[r].code = 401 => cur[r] = NoKey
                /\ resp[r].code = 403 => cur[r] # NoKey /\ cur[r].team_id # req[r].team_id)

C18_Witness ==
    /\ \E r \in Reqs : /\ pc[r] = "done" /\ req[r].op \in WritingOps
                       /\ resp[r].code = 401 /\ RevokedToken(req[r].token)
    /\ \E r \in Reqs : /\ pc[r] = "done" /\ req[r].op \in WritingOps
                       /\ resp[r].code = 403

\* The step in which revoke_api_key of request r, past its team check, looks
\* up key_id.
LooksUp(r) ==
    /\ pc[r] = "authed" /\ req[r].op = "revoke_api_key" /\ pc'[r] # "authed"
    /\ req'[r].team_id = cur[r].team_id

SourcesIn(tbl) == {src \in Sources : \E x \in tbl : x.src = src /\ x.n > 0}

C21_DocumentTeamOwnsProject ==
    \A d \in DocIds :
        documents[d] # NoDoc => documents[d].team_id = projects[documents[d].project_id]

HasActiveKey(team_id) ==
    \E k \in DOMAIN api_keys :
        api_keys[k].team_id = team_id /\ api_keys[k].status = "active"

\* C22 (as stated): while a team has no active api key, so that no caller can
\* hold one, no step gives it an active key.
C22_NoKeyWithoutKey ==
    [][\A t \in Teams : ~HasActiveKey(t) => ~HasActiveKey(t)']_vars

\* C23 (as stated): once a call whose statement failed has returned, the
\* connection is not left inside the aborted transaction, in which every
\* further statement fails.
C23_FailureReleasesTransaction ==
    \A c \in Calls :
        rag_pc[c] = "done" /\ rag_ret[c].kind = "error" => rag_tx # "aborted"

====
